---- MODULE Spec2Model ----
(***************************************************************************)
(* goblintools/file_handling.py: recursive archive extraction and file     *)
(* organisation over a filesystem.                                         *)
(*                                                                         *)
(* A file name is a record [base, sfx, ext]: "a_1_2.txt" is base "a",      *)
(* sfx <<1, 2>>, ext ".txt".  A path is [dir, name] with dir a sequence of *)
(* directory names.  The filesystem is fs (path -> content) and dirs (the  *)
(* directories that exist); readonly is the set of directories the process *)
(* may not write to (no entry of such a directory can be added, removed or *)
(* renamed); formats is the class attribute                                *)
(* ArchiveHandler._SUPPORTED_FORMATS.                                      *)
(***************************************************************************)
EXTENDS Integers, Sequences, FiniteSets, TLC

VARIABLES fs, dirs, readonly, formats, last, jobs, batch, hist

vars == <<fs, dirs, readonly, formats, last, jobs, batch, hist>>

(* ------------------------------ bounds -------------------------------- *)

\* Deepest nesting of the archives the initial filesystem holds.
MaxDepth == 2

(* --------------------------- names and paths --------------------------- *)

FileName(base, ext) == [base |-> base, sfx |-> <<>>, ext |-> ext]

FilePath(dir, name) == [dir |-> dir, name |-> name]

\* str.lower() on an extension.
Lower(ext) ==
    CASE ext = ".ZIP" -> ".zip"
      [] ext = ".TXT" -> ".txt"
      [] ext = ".Z"   -> ".z"
      [] ext = ".PAK" -> ".pak"
      [] OTHER        -> ext

InDir  == <<"in">>
OutDir == <<"out">>
SubRel == <<"sub">>

NoteTxt   == FileName("note", ".txt")
InnerZip  == FileName("inner", ".zip")
PhotosZip == FileName("photos", ".zip")

(* ------------------------------ contents ------------------------------- *)

\* A regular non-empty file that is no archive.
Plain(tag) ==
    [arch |-> FALSE, empty |-> FALSE, corrupt |-> FALSE, tag |-> tag, entries |-> {}]

\* A zero-length file.
EmptyFile ==
    [arch |-> FALSE, empty |-> TRUE, corrupt |-> FALSE, tag |-> "", entries |-> {}]

\* An archive: its bytes carry an archive signature.  A corrupt archive makes
\* the codec fail after it has written `entries' (the part it could read).
Archive(entries, corrupt) ==
    [arch |-> TRUE, empty |-> FALSE, corrupt |-> corrupt, tag |-> "", entries |-> entries]

Entry(rel, name, content) == [rel |-> rel, name |-> name, content |-> content]

Note == Plain("note")
Memo == Plain("memo")

\* The archives of nesting depth at most n: at most one nested entry (an
\* archive of smaller depth at the archive's root or in its sub-directory, or a
\* zero-length file named like an archive) and at most one plain entry.
RECURSIVE Archives(_)
Archives(n) ==
    IF n = 0 THEN {}
    ELSE LET inner  == Archives(n - 1)
             nested == {Entry(r, InnerZip, x) : r \in {<<>>, SubRel}, x \in inner}
                         \cup {Entry(<<>>, InnerZip, EmptyFile)}
             note   == Entry(<<>>, NoteTxt, Note)
             sets   == {{}} \cup {{note}} \cup {{e} : e \in nested}
                         \cup {{e, note} : e \in nested}
         IN  {Archive(E, c) : E \in sets, c \in BOOLEAN}

\* Every archive content nested in c, c included.
RECURSIVE Nested(_)
Nested(c) ==
    IF ~c.arch THEN {}
    ELSE {c} \cup UNION {Nested(e.content) : e \in c.entries}

\* No archive of the nest is corrupt.
WellFormed(c) == \A x \in Nested(c) : ~x.corrupt

(* ----------------------------- filesystem ------------------------------ *)

Prefixes(d) == {SubSeq(d, 1, k) : k \in 1..Len(d)}

IsUnder(d, top) == Len(d) >= Len(top) /\ SubSeq(d, 1, Len(top)) = top

Write(f, p, c) == [q \in DOMAIN f \cup {p} |-> IF q = p THEN c ELSE f[q]]

Remove(f, p) == [q \in DOMAIN f \ {p} |-> f[q]]

\* The files of the tree rooted at top.
Tree(f, top) == {p \in DOMAIN f : IsUnder(p.dir, top)}

(* ---------------------------- FileValidator ---------------------------- *)

\* The extensions the codec library's mime database knows as archives.
ArchiveExts == {".zip", ".tar", ".gz"}

is_empty(f, p) == p \in DOMAIN f /\ f[p].empty

\* Mutant: a probe that takes every path for an archive.
is_archive_always(f, p) == TRUE

\* patoolib.is_archive: the signature of the bytes, else the extension.
is_archive(f, p) ==
    \/ p \in DOMAIN f /\ f[p].arch
    \/ Lower(p.name.ext) \in ArchiveExts

(* ---------------------------- ArchiveHandler --------------------------- *)

ZipExts == {".zip", ".jar", ".cbz", ".war", ".ear"}
RarExts == {".rar", ".cbr"}
PatoolExts ==
    {".7z", ".cb7", ".gz", ".bz2", ".bz3", ".tbz2", ".tar", ".tgz", ".txz", ".cbt",
     ".iso", ".udf", ".deb", ".rpm", ".ace", ".cba", ".arj", ".cab", ".chm", ".cpio",
     ".dms", ".lha", ".lzh", ".lzma", ".lzo", ".xz", ".zst", ".zoo", ".adf", ".alz",
     ".arc", ".shn", ".rz", ".lrz", ".a", ".Z"}

\* The handler table as the class body builds it: extension -> the library
\* entry point its lambda calls.
SUPPORTED_FORMATS ==
    [e \in ZipExts \cup RarExts \cup PatoolExts |->
        IF e \in ZipExts THEN "zipfile" ELSE IF e \in RarExts THEN "rarfile" ELSE "patool"]

\* Mutant: a lookup with no else branch.
HandlerFor_no_fallback(p) ==
    LET ext == Lower(p.name.ext)
    IN  IF ext \in DOMAIN formats THEN formats[ext] ELSE "refuse"

\* The handler extract() picks for a path; "fallback" is the else branch.
HandlerFor(p) ==
    LET ext == Lower(p.name.ext)
    IN  IF ext \in DOMAIN formats THEN formats[ext] ELSE "fallback"

\* ArchiveHandler.add_format: the table after the call.
add_format(table, extension, handler) ==
    [e \in DOMAIN table \cup {Lower(extension)} |->
        IF e = Lower(extension) THEN handler ELSE table[e]]

\* A state of the filesystem with the handler calls made so far by the running
\* operation.
State(f, d, c) == [fs |-> f, dirs |-> d, calls |-> c]

Returned(S, ok) == [st |-> S, ok |-> ok]

\* The handler writes the entries it can read under destination, creating the
\* directories it needs and overwriting the files already there.
WriteEntries(S, entries, destination) ==
    LET target(e) == FilePath(destination \o e.rel, e.name)
        written   == {target(e) : e \in entries}
        of(p)     == (CHOOSE e \in entries : target(e) = p).content
    IN  [S EXCEPT
            !.fs   = [q \in DOMAIN S.fs \cup written |->
                         IF q \in written THEN of(q) ELSE S.fs[q]],
            !.dirs = S.dirs \cup Prefixes(destination)
                        \cup UNION {Prefixes(destination \o e.rel) : e \in entries}]

\* os.remove(file_path) of a file that exists.
RemoveFile(S, p) == [S EXCEPT !.fs = Remove(S.fs, p)]

\* The handler extract() picks, run on file_path: the outcomes of the call, with
\* whether it raised.  A missing file or bytes that are no archive make it
\* raise at once; a corrupt archive makes it raise after the entries it could
\* read; a handler that unpacks an entry onto the very file it is reading may
\* or may not raise.  Of the handlers a caller registers, "unpack" decodes
\* through the codec library as the built-in ones do and "refuse" raises at once.
RunHandler(S, file_path, destination) ==
    LET call(raised) ==
            [path |-> file_path, handler |-> HandlerFor(file_path),
             present |-> file_path \in DOMAIN S.fs, raised |-> raised,
             content |-> IF file_path \in DOMAIN S.fs THEN S.fs[file_path] ELSE EmptyFile]
        log(T, raised) == [st |-> [T EXCEPT !.calls = Append(@, call(raised))],
                           raised |-> raised]
    IN  IF HandlerFor(file_path) = "refuse" THEN {log(S, TRUE)}
        ELSE IF file_path \notin DOMAIN S.fs THEN {log(S, TRUE)}
        ELSE LET c == S.fs[file_path] IN
             IF ~c.arch THEN {log(S, TRUE)}
             ELSE LET decoded == WriteEntries(S, c.entries, destination)
                      onto    == \E e \in c.entries :
                                    FilePath(destination \o e.rel, e.name) = file_path
                  IN  IF c.corrupt THEN {log(decoded, TRUE)}
                      ELSE IF onto THEN {log(decoded, FALSE), log(decoded, TRUE)}
                      ELSE {log(decoded, FALSE)}

\* Mutant: an except branch that leaves the failed archive in place.
CleanUp_skipped(S, file_path) == S

\* The except branch of extract: the file is removed if it is still there.
CleanUp(S, file_path) ==
    IF file_path \in DOMAIN S.fs THEN RemoveFile(S, file_path) ELSE S

\* ArchiveHandler.extract: the outcomes of one call.
extract(S, file_path, destination) ==
    IF is_empty(S.fs, file_path) THEN {Returned(S, FALSE)}
    ELSE {IF h.raised \/ file_path \notin DOMAIN h.st.fs
          THEN Returned(CleanUp(h.st, file_path), FALSE)
          ELSE Returned(RemoveFile(h.st, file_path), TRUE)
          : h \in RunHandler(S, file_path, destination)}

(* ----------------------------- FileManager ----------------------------- *)

\* The immediate sub-directories of top.
SubDirs(d, top) == {x \in d : Len(x) = Len(top) + 1 /\ IsUnder(x, top)}

\* The names os.walk lists as the files of directory top.
FileNames(f, top) == {p.name : p \in {q \in DOMAIN f : q.dir = top}}

RECURSIVE extract_files_recursive(_, _, _), Walk(_, _), WalkFiles(_, _, _), WalkDirs(_, _)

\* Mutant: extract_files_recursive without the os.path.exists check.
efr_no_exists_check(S, file_path, destination) ==
    IF ~is_archive(S.fs, file_path) THEN {Returned(S, FALSE)}
    ELSE UNION {IF ~r.ok THEN {Returned(r.st, FALSE)}
                ELSE {Returned(T, TRUE) : T \in Walk(r.st, destination)}
                : r \in extract(S, file_path, destination)}

\* Mutant: extract_files_recursive that fails when a nested extraction failed.
efr_nested_failure_fails(S, file_path, destination) ==
    IF file_path \notin DOMAIN S.fs THEN {Returned(S, FALSE)}
    ELSE IF ~is_archive(S.fs, file_path) THEN {Returned(S, FALSE)}
    ELSE UNION {IF ~r.ok THEN {Returned(r.st, FALSE)}
                ELSE {Returned(T, \A i \in 1..Len(T.calls) : ~T.calls[i].raised)
                        : T \in Walk(r.st, destination)}
                : r \in extract(S, file_path, destination)}

\* FileManager.extract_files_recursive: the outcomes of one call.
extract_files_recursive(S, file_path, destination) ==
    IF file_path \notin DOMAIN S.fs THEN {Returned(S, FALSE)}
    ELSE IF ~is_archive(S.fs, file_path) THEN {Returned(S, FALSE)}
    ELSE UNION {IF ~r.ok THEN {Returned(r.st, FALSE)}
                ELSE {Returned(T, TRUE) : T \in Walk(r.st, destination)}
                : r \in extract(S, file_path, destination)}

\* The loop over os.walk(top), top-down: the files of top as listed on arrival,
\* in any order, then the sub-directories listed on arrival, in any order.
Walk(S, top) ==
    IF top \notin S.dirs THEN {S}
    ELSE LET subs == SubDirs(S.dirs, top)
         IN  UNION {WalkDirs(T, subs) : T \in WalkFiles(S, top, FileNames(S.fs, top))}

\* The inner loop: each listed file that is an archive is extracted into root.
WalkFiles(S, root, files) ==
    IF files = {} THEN {S}
    ELSE UNION {
           LET source == FilePath(root, file)
               after  == IF is_archive(S.fs, source)
                         THEN {r.st : r \in extract_files_recursive(S, source, root)}
                         ELSE {S}
           IN  UNION {WalkFiles(T, root, files \ {file}) : T \in after}
           : file \in files}

WalkDirs(S, subs) ==
    IF subs = {} THEN {S}
    ELSE UNION {UNION {WalkDirs(T, subs \ {d}) : T \in Walk(S, d)} : d \in subs}

\* A logger call of FileManager made for path, kept with the calls of the
\* running operation.  The event "raised" stands for an exception that leaves
\* the operation instead of being logged.
Logged(S, event, path) ==
    [S EXCEPT !.calls = Append(@, [event |-> event, path |-> path])]

Aborted(S) == \E i \in DOMAIN S.calls : S.calls[i].event = "raised"

\* os.path.dirname of a directory.
Parent(d) == SubSeq(d, 1, Len(d) - 1)

\* The path of a directory that is not the top one, as the path of an entry of
\* the directory that holds it.
DirPath(d) == FilePath(Parent(d), FileName(d[Len(d)], ""))

\* Mutant: FileNotFoundError handled like the other errors (False).
delete_if_empty_missing_fails(S, file_path) ==
    IF file_path \notin DOMAIN S.fs THEN Returned(S, FALSE)
    ELSE IF S.fs[file_path].empty THEN Returned(RemoveFile(S, file_path), TRUE)
    ELSE Returned(S, FALSE)

\* FileManager.delete_if_empty.  os.remove of a file in a directory that may
\* not be written raises PermissionError, which is logged (line 133).
delete_if_empty(S, file_path) ==
    IF file_path \notin DOMAIN S.fs THEN Returned(S, TRUE)
    ELSE IF S.fs[file_path].empty
         THEN IF file_path.dir \in readonly
              THEN Returned(Logged(S, "warning", file_path), FALSE)
              ELSE Returned(RemoveFile(S, file_path), TRUE)
    ELSE Returned(S, FALSE)

\* f"{base}_{counter}{ext}" for the base and ext of destination.
Suffixed(destination, counter) ==
    FilePath(destination.dir, [destination.name EXCEPT !.sfx = Append(@, counter)])

\* Mutant: a conflict test that is made once (if in place of while).
FreeName_tested_once(f, destination) ==
    IF destination \notin DOMAIN f THEN destination ELSE Suffixed(destination, 1)

\* The name the conflict loop of move_file ends on.
FreeName(f, destination) ==
    IF destination \notin DOMAIN f THEN destination
    ELSE LET free == {k \in 1..(Cardinality(DOMAIN f) + 1) :
                         Suffixed(destination, k) \notin DOMAIN f}
         IN  Suffixed(destination, CHOOSE k \in free : \A j \in free : k <= j)

\* Mutant: move_file without the conflict loop.
move_file_no_conflict_loop(S, source, destination) ==
    IF is_empty(S.fs, source) THEN Returned(S, FALSE)
    ELSE LET made == [S EXCEPT !.dirs = @ \cup Prefixes(destination.dir)]
         IN  IF source \notin DOMAIN S.fs THEN Returned(made, FALSE)
             ELSE Returned([made EXCEPT
                              !.fs = Write(Remove(S.fs, source), destination, S.fs[source])],
                           TRUE)

\* Mutant: move_file that creates the destination directory before it looks at
\* the source.
move_file_makedirs_first(S, source, destination) ==
    LET made == [S EXCEPT !.dirs = @ \cup Prefixes(destination.dir)]
    IN  IF is_empty(S.fs, source) \/ source \notin DOMAIN S.fs THEN Returned(made, FALSE)
        ELSE LET target == FreeName(S.fs, destination)
             IN  Returned([made EXCEPT
                             !.fs = Write(Remove(S.fs, source), target, S.fs[source])],
                          TRUE)

\* os.makedirs(os.path.dirname(destination), exist_ok=True) cannot create a
\* directory inside one that may not be written.
MakedirsDenied(S, destination) ==
    \E d \in Prefixes(destination.dir) \ S.dirs : Parent(d) \in readonly

\* What shutil.move(source, target) leaves when it raises for want of a
\* permission: nothing if the directory of target may not be written; else the
\* rename fails on the directory of source, the copy is made and the unlink of
\* source fails, so that the file lies at both paths.
MoveDenied(S, source, target) ==
    IF target.dir \in readonly THEN S
    ELSE [S EXCEPT !.fs = Write(S.fs, target, S.fs[source])]

\* Mutant: move_file without its except branch: the exception leaves the call.
move_file_unguarded(S, source, destination) ==
    IF is_empty(S.fs, source) THEN Returned(S, FALSE)
    ELSE IF MakedirsDenied(S, destination)
         THEN Returned(Logged(S, "raised", source), FALSE)
    ELSE LET made == [S EXCEPT !.dirs = @ \cup Prefixes(destination.dir)]
         IN  IF source \notin DOMAIN S.fs
             THEN Returned(Logged(made, "raised", source), FALSE)
             ELSE LET target == FreeName(S.fs, destination)
                  IN  IF source.dir \in readonly \/ target.dir \in readonly
                      THEN Returned(Logged(MoveDenied(made, source, target),
                                           "raised", source), FALSE)
                      ELSE Returned([made EXCEPT
                                       !.fs = Write(Remove(S.fs, source), target,
                                                    S.fs[source])],
                                    TRUE)

\* FileManager.move_file.  Every exception raised between lines 158 and 171 is
\* logged and answered with False (lines 173-175).
move_file(S, source, destination) ==
    IF is_empty(S.fs, source) THEN Returned(S, FALSE)
    ELSE IF MakedirsDenied(S, destination)
         THEN Returned(Logged(S, "error", source), FALSE)
    ELSE LET made == [S EXCEPT !.dirs = @ \cup Prefixes(destination.dir)]
         IN  IF source \notin DOMAIN S.fs
             THEN Returned(Logged(made, "error", source), FALSE)
             ELSE LET target == FreeName(S.fs, destination)
                  IN  IF source.dir \in readonly \/ target.dir \in readonly
                      THEN Returned(Logged(MoveDenied(made, source, target),
                                           "error", source), FALSE)
                      ELSE Returned([made EXCEPT
                                       !.fs = Write(Remove(S.fs, source), target,
                                                    S.fs[source])],
                                    TRUE)

(* ------------------------- the sequential program ----------------------- *)

\* The record of the last call: its arguments, its result, the handler calls it
\* made and the filesystem it started from (sound: holding no corrupt archive).
\* repeat: it repeats the call before it, which returned True.  follow: the call
\* before it returned True from a sound filesystem, and this one is given a
\* file of the tree that call worked on, with the file's directory.
Call(op, path, dest, ok, calls) ==
    [op |-> op, path |-> path, dest |-> dest, ok |-> ok, calls |-> calls,
     pre_fs |-> fs, pre_dirs |-> dirs,
     sound |-> \A p \in DOMAIN fs : WellFormed(fs[p]),
     repeat |-> last.op = op /\ last.ok /\ last.path = path /\ last.dest = dest,
     follow |-> /\ op = "extract_files_recursive"
                /\ last.op = op /\ last.ok /\ last.sound
                /\ path \in DOMAIN fs /\ IsUnder(path.dir, last.dest) /\ dest = path.dir]

NoCall == [op |-> "none", path |-> <<>>, dest |-> <<>>, ok |-> FALSE, calls |-> <<>>,
           pre_fs |-> <<>>, pre_dirs |-> {}, sound |-> FALSE, repeat |-> FALSE,
           follow |-> FALSE]

MissingPath == FilePath(InDir, FileName("gone", ".zip"))

\* The paths and destinations the caller passes: a file, a path that never
\* existed, or the path of the call before.
ArgPaths ==
    DOMAIN fs \cup {MissingPath}
        \cup (IF last.op \in {"none", "add_format", "move_files"} THEN {} ELSE {last.path})
ArgDests == {OutDir, InDir}

\* The caller's input: an archive, a zero-length file or a plain file, named
\* like an archive, in the input directory or in the destination itself; the
\* destination may already hold a plain file.
Inputs == Archives(MaxDepth) \cup {EmptyFile, Memo}

\* No batch is running and nothing was registered.  hist is the history of the
\* program: owner (the job that wrote each file of a batch, 0 for the inputs),
\* meddled (what a job did to a file of another job), decodes (how many
\* handler calls were made on each file of a batch since it was written) and
\* registered (the handler of the last add_format for each key).
NoBatch ==
    /\ jobs = <<>>
    /\ batch = [phase |-> "none", results |-> <<>>]
    /\ hist = [owner |-> <<>>, meddled |-> {}, decodes |-> <<>>, registered |-> <<>>]

Init ==
    /\ NoBatch
    /\ \E c \in Inputs, d \in {InDir, OutDir}, n \in {PhotosZip, InnerZip},
          old \in SUBSET {FilePath(OutDir, NoteTxt)} :
          fs = [p \in {FilePath(d, n)} \cup old |-> IF p \in old THEN Memo ELSE c]
    /\ dirs = {InDir, OutDir}
    /\ formats = SUPPORTED_FORMATS
    /\ readonly = {}
    /\ last = NoCall

ExtractFilesRecursive ==
    \E p \in ArgPaths : \E d \in ArgDests \cup {p.dir} :
      \E r \in extract_files_recursive(State(fs, dirs, <<>>), p, d) :
        /\ fs' = r.st.fs
        /\ dirs' = r.st.dirs
        /\ last' = Call("extract_files_recursive", p, d, r.ok, r.st.calls)
        /\ UNCHANGED <<jobs, batch, hist, formats, readonly>>

Extract ==
    \E p \in ArgPaths : \E d \in ArgDests \cup {p.dir} :
      \E r \in extract(State(fs, dirs, <<>>), p, d) :
        /\ fs' = r.st.fs
        /\ dirs' = r.st.dirs
        /\ last' = Call("extract", p, d, r.ok, r.st.calls)
        /\ UNCHANGED <<jobs, batch, hist, formats, readonly>>

Next == ExtractFilesRecursive \/ Extract

Spec == Init /\ [][Next]_vars

(* ------------------------------- the probe ------------------------------ *)

\* One call of FileValidator.is_archive, line 27: it returns what
\* patoolib.is_archive returns and, having no handler of its own, lets through
\* what the library raises when its probe fails.
is_archive_call(f, p, probe_fails) ==
    [value |-> ~probe_fails /\ is_archive(f, p), failed |-> probe_fails,
     raised |-> probe_fails]

\* The caller probes a path; the library's probe works or fails.
IsArchive ==
    \E p \in ArgPaths, probe_fails \in BOOLEAN :
      LET r == is_archive_call(fs, p, probe_fails)
      IN  /\ last' = Call("is_archive", p, <<>>, r.value,
                          <<[failed |-> r.failed, raised |-> r.raised]>>)
          /\ UNCHANGED <<fs, dirs, jobs, batch, hist, formats, readonly>>

NextProbe == IsArchive

SpecProbe == Init /\ [][NextProbe]_vars

(* --------------------------- the file organiser ------------------------- *)

\* Most files the tree to organise starts with.
MaxFiles == 3

ATxt == FileName("a", ".txt")
BTxt == FileName("b", ".txt")

\* Where the files to organise may lie, and what they may hold.
OrganizePaths ==
    {FilePath(InDir, ATxt), FilePath(InDir, BTxt),
     FilePath(OutDir, ATxt), Suffixed(FilePath(OutDir, ATxt), 1)}

MoveTargets == {FilePath(OutDir, ATxt), FilePath(OutDir \o SubRel, ATxt)}

InitOrganize ==
    /\ NoBatch
    /\ \E used \in SUBSET OrganizePaths :
         /\ Cardinality(used) <= MaxFiles
         /\ fs \in [used -> {Note, Memo, EmptyFile}]
    /\ dirs = {InDir, OutDir}
    /\ formats = SUPPORTED_FORMATS
    /\ readonly = {}
    /\ last = NoCall

DeleteIfEmpty ==
    \E p \in ArgPaths :
      LET r == delete_if_empty(State(fs, dirs, <<>>), p)
      IN  /\ fs' = r.st.fs
          /\ dirs' = r.st.dirs
          /\ last' = Call("delete_if_empty", p, <<>>, r.ok, <<>>)
          /\ UNCHANGED <<jobs, batch, hist, formats, readonly>>

MoveFile ==
    \E s \in ArgPaths, d \in MoveTargets :
      LET r == move_file(State(fs, dirs, <<>>), s, d)
      IN  /\ fs' = r.st.fs
          /\ dirs' = r.st.dirs
          /\ last' = Call("move_file", s, d, r.ok, <<>>)
          /\ UNCHANGED <<jobs, batch, hist, formats, readonly>>

NextOrganize == DeleteIfEmpty \/ MoveFile

SpecOrganize == InitOrganize /\ [][NextOrganize]_vars

(* --------------------------- the handler table -------------------------- *)

\* The extensions and the handlers callers register.
RegisteredExts == {".zip", ".ZIP", ".Z", ".pak"}
UserHandlers   == {"unpack", "refuse"}

\* The extensions of the files handed to extract: a built-in one in upper
\* case, the one the table spells in upper case, and one the table does not know.
DataExts == {".ZIP", ".Z", ".pak"}

\* One file per extension, all with the same bytes: an archive, a corrupt
\* archive, a plain file or a zero-length file.
InitRegistry ==
    /\ NoBatch
    /\ \E c \in {Archive({Entry(<<>>, NoteTxt, Note)}, FALSE),
                 Archive({Entry(<<>>, NoteTxt, Note)}, TRUE), Memo, EmptyFile} :
         fs = [p \in {FilePath(InDir, FileName("data", e)) : e \in DataExts} |-> c]
    /\ dirs = {InDir, OutDir}
    /\ formats = SUPPORTED_FORMATS
    /\ readonly = {}
    /\ last = NoCall

\* add_format returns None; ok records that it returned.
AddFormat ==
    \E extension \in RegisteredExts, handler \in UserHandlers :
      /\ formats' = add_format(formats, extension, handler)
      /\ last' = Call("add_format", extension, handler, TRUE, <<>>)
      /\ hist' = [hist EXCEPT !.registered =
                    [e \in DOMAIN @ \cup {Lower(extension)} |->
                        IF e = Lower(extension) THEN handler ELSE @[e]]]
      /\ UNCHANGED <<fs, dirs, readonly, jobs, batch>>

NextRegistry == AddFormat \/ Extract

SpecRegistry == InitRegistry /\ [][NextRegistry]_vars

(* ------------------------------ move_files ------------------------------ *)

\* f"{Path(file).stem}{file_ext}" joined to folder_path: the extension of the
\* name lower-cased, the stem kept.
Normalized(folder_path, file) == FilePath(folder_path, [file EXCEPT !.ext = Lower(@)])

\* not os.listdir(root): root holds no file and no directory.
ListsEmpty(S, root) ==
    /\ \A p \in DOMAIN S.fs : p.dir # root
    /\ SubDirs(S.dirs, root) = {}

\* Lines 197-201: os.rmdir(root) if root lists empty; it raises if the
\* directory that holds root may not be written, and that is logged.
RemoveIfEmpty(S, root) ==
    IF ~ListsEmpty(S, root) THEN S
    ELSE IF Parent(root) \in readonly THEN Logged(S, "error", DirPath(root))
    ELSE [S EXCEPT !.dirs = @ \ {root}]

RECURSIVE OrganizeWalk(_, _, _), OrganizeFiles(_, _, _, _), OrganizeDirs(_, _, _)

\* FileManager.move_files: the states one call can end in.  A folder_path that
\* is no directory has nothing to walk.
move_files(S, folder_path) ==
    IF folder_path \notin S.dirs THEN {S}
    ELSE OrganizeWalk(S, folder_path, folder_path)

\* The loop over os.walk(folder_path), top-down: top is listed on arrival, its
\* files are processed in any order, top is removed if it lists empty, and only
\* then the sub-directories listed on arrival are walked, in any order.
OrganizeWalk(S, folder_path, top) ==
    IF top \notin S.dirs THEN {S}
    ELSE LET subs == SubDirs(S.dirs, top)
         IN  UNION {IF Aborted(T) THEN {T}
                    ELSE OrganizeDirs(RemoveIfEmpty(T, top), folder_path, subs)
                      : T \in OrganizeFiles(S, folder_path, top, FileNames(S.fs, top))}

\* Lines 185-194: a listed file is deleted if it is empty (or skipped if it is
\* gone), and moved to its normalized name under folder_path otherwise.  An
\* exception that leaves one of the two calls ends the walk.
OrganizeFiles(S, folder_path, root, files) ==
    IF files = {} THEN {S}
    ELSE UNION {
           LET source_path == FilePath(root, file)
               deleted     == delete_if_empty(S, source_path)
               after       == IF deleted.ok THEN deleted.st
                              ELSE move_file(deleted.st, source_path,
                                             Normalized(folder_path, file)).st
           IN  IF Aborted(after) THEN {after}
               ELSE OrganizeFiles(after, folder_path, root, files \ {file})
           : file \in files}

OrganizeDirs(S, folder_path, subs) ==
    IF subs = {} \/ Aborted(S) THEN {S}
    ELSE UNION {UNION {OrganizeDirs(T, folder_path, subs \ {d})
                         : T \in OrganizeWalk(S, folder_path, d)} : d \in subs}

DeepRel == <<"deep">>

AUpperTxt == FileName("a", ".TXT")

\* Where the files of the tree to organise may lie: under the root, one and two
\* directories below it, and outside the tree.
TreePaths ==
    {FilePath(OutDir, ATxt), FilePath(OutDir, AUpperTxt),
     FilePath(OutDir \o SubRel, ATxt), FilePath(OutDir \o SubRel \o DeepRel, ATxt),
     FilePath(OutDir \o SubRel \o DeepRel, BTxt), FilePath(InDir, ATxt)}

\* The directories the caller passes: the root, a directory below it, and a
\* path that does not exist.
ArgFolders == {OutDir, OutDir \o SubRel, <<"gone">>}

InitMoveFiles ==
    /\ NoBatch
    /\ \E used \in SUBSET TreePaths :
         /\ Cardinality(used) <= MaxFiles
         /\ fs \in [used -> {Note, Memo, EmptyFile}]
         /\ \E extra \in SUBSET {OutDir \o SubRel, OutDir \o SubRel \o DeepRel} :
              dirs = {InDir, OutDir} \cup UNION {Prefixes(p.dir) : p \in used}
                        \cup UNION {Prefixes(d) : d \in extra}
    /\ formats = SUPPORTED_FORMATS
    /\ readonly = {}
    /\ last = NoCall

\* Most conflict suffixes a name may carry for move_files to be called again:
\* every call adds one to the names of the files that lie under its root.
MaxSuffixes == 2

\* move_files returns None; ok records that it returned rather than raised,
\* and calls holds what it logged.
MoveFiles ==
    /\ \A p \in DOMAIN fs : Len(p.name.sfx) < MaxSuffixes
    /\ \E folder_path \in ArgFolders :
         \E T \in move_files(State(fs, dirs, <<>>), folder_path) :
           /\ fs' = T.fs
           /\ dirs' = T.dirs
           /\ last' = Call("move_files", folder_path, <<>>, ~Aborted(T), T.calls)
           /\ UNCHANGED <<jobs, batch, hist, formats, readonly>>

NextMoveFiles == MoveFiles

SpecMoveFiles == InitMoveFiles /\ [][NextMoveFiles]_vars

\* The same trees with directories of the tree to organise that the process
\* may not write to.
DeniedDirs == {OutDir, OutDir \o SubRel}

InitDenied ==
    /\ NoBatch
    /\ \E used \in SUBSET TreePaths :
         /\ Cardinality(used) <= MaxFiles
         /\ fs \in [used -> {Note, Memo, EmptyFile}]
         /\ \E extra \in SUBSET {OutDir \o SubRel, OutDir \o SubRel \o DeepRel} :
              dirs = {InDir, OutDir} \cup UNION {Prefixes(p.dir) : p \in used}
                        \cup UNION {Prefixes(d) : d \in extra}
    /\ formats = SUPPORTED_FORMATS
    /\ readonly \in SUBSET (DeniedDirs \cap dirs) \ {{}}
    /\ last = NoCall

SpecDenied == InitDenied /\ [][NextMoveFiles]_vars

(* ----------------------------- batch_extract ---------------------------- *)

\* Most jobs of a batch.
MaxJobs == 2

AlbumZip == FileName("album", ".zip")

\* The input of job i.
BatchPath(i) == FilePath(InDir, IF i = 1 THEN PhotosZip ELSE
                                IF i = 2 THEN AlbumZip ELSE
                                [AlbumZip EXCEPT !.sfx = <<i>>])

\* A frame of extract_files_recursive on a worker thread's stack: its
\* arguments, where it stands, and the state of its os.walk loop (the
\* directories still to list, the directory being processed and the files of
\* it still to look at).
Frame(file_path, destination) ==
    [file_path |-> file_path, destination |-> destination, pc |-> "exists",
     todo |-> <<>>, root |-> <<>>, files |-> {}]

\* executor.map has submitted one call of extract_files_recursive per path.
Job(file_path, destination) ==
    [stack |-> <<Frame(file_path, destination)>>, status |-> "running", result |-> FALSE]

\* The archives a batch is given: those that hold no zero-length file.
BatchInputs ==
    {a \in Archives(MaxDepth) : \A x \in Nested(a) : \A e \in x.entries : ~e.content.empty}

InitBatch ==
    /\ \E k \in 1..MaxJobs : \E c \in [1..k -> BatchInputs] :
         /\ fs = [p \in {BatchPath(i) : i \in 1..k} |->
                     c[CHOOSE i \in 1..k : BatchPath(i) = p]]
         /\ jobs = [i \in 1..k |-> Job(BatchPath(i), OutDir)]
         /\ hist = [owner      |-> [p \in {BatchPath(i) : i \in 1..k} |-> 0],
                     meddled    |-> {},
                     decodes    |-> [p \in {BatchPath(i) : i \in 1..k} |-> 0],
                     registered |-> <<>>]
    /\ dirs = {InDir, OutDir}
    /\ formats = SUPPORTED_FORMATS
    /\ readonly = {}
    /\ last = NoCall
    /\ batch = [phase |-> "running", results |-> <<>>]

\* Job j is running and its innermost frame stands at pc.
At(j, pc) ==
    /\ jobs[j].status = "running"
    /\ Head(jobs[j].stack).pc = pc

Top(j) == Head(jobs[j].stack)

Goto(j, pc) == [jobs EXCEPT ![j].stack = <<[Top(j) EXCEPT !.pc = pc]>> \o Tail(@)]

\* The innermost call returns v: to the walk loop of its caller, which drops the
\* value, or as the result of the job.
Return(j, v) ==
    IF Len(jobs[j].stack) = 1
    THEN [jobs EXCEPT ![j] = [stack |-> <<>>, status |-> "returned", result |-> v]]
    ELSE [jobs EXCEPT ![j].stack = Tail(@)]

\* An exception no frame catches ends the job.
Raise(j) == [jobs EXCEPT ![j] = [stack |-> <<>>, status |-> "raised", result |-> FALSE]]

\* One more handler call on a file that n calls were made on (more than two
\* are counted as two).
Seen(n) == IF n = 0 THEN 1 ELSE 2

\* Job j touches the files ps, which another job produced.
Meddle(j, ps, how) ==
    {[by |-> j, of |-> hist.owner[p], how |-> how] :
        p \in {q \in ps \cap DOMAIN hist.owner : hist.owner[q] \notin {0, j}}}

\* Line 206: os.path.exists(file_path).
JobExists(j) ==
    /\ At(j, "exists")
    /\ jobs' = IF Top(j).file_path \in DOMAIN fs THEN Goto(j, "probe") ELSE Return(j, FALSE)
    /\ UNCHANGED <<fs, dirs, last, batch, hist, formats, readonly>>

\* Line 209: FileValidator.is_archive(file_path).
JobProbe(j) ==
    /\ At(j, "probe")
    /\ jobs' = IF is_archive(fs, Top(j).file_path) THEN Goto(j, "is_empty")
               ELSE Return(j, FALSE)
    /\ UNCHANGED <<fs, dirs, last, batch, hist, formats, readonly>>

\* Line 101: extract returns False for a zero-length file.
JobIsEmpty(j) ==
    /\ At(j, "is_empty")
    /\ jobs' = IF is_empty(fs, Top(j).file_path) THEN Return(j, FALSE)
               ELSE Goto(j, "handler")
    /\ UNCHANGED <<fs, dirs, last, batch, hist, formats, readonly>>

\* Lines 105-110: the handler runs.
JobHandler(j) ==
    /\ At(j, "handler")
    /\ \E h \in RunHandler(State(fs, dirs, <<>>), Top(j).file_path, Top(j).destination) :
         LET source  == Top(j).file_path
             written == IF source \in DOMAIN fs /\ fs[source].arch
                        THEN {FilePath(Top(j).destination \o e.rel, e.name) :
                                 e \in fs[source].entries}
                        ELSE {}
         IN  /\ fs' = h.st.fs
             /\ dirs' = h.st.dirs
             /\ jobs' = Goto(j, IF h.raised THEN "except_exists" ELSE "remove")
             /\ hist' = [hist EXCEPT
                           !.owner   = [p \in DOMAIN h.st.fs |->
                                          IF p \in written THEN j ELSE hist.owner[p]],
                           !.meddled = @ \cup Meddle(j, {Top(j).file_path}, "decode")
                                         \cup Meddle(j, written, "overwrite"),
                           !.decodes = [p \in DOMAIN h.st.fs |->
                                          IF p \in written THEN 0
                                          ELSE IF p = source THEN Seen(hist.decodes[p])
                                          ELSE hist.decodes[p]]]
    /\ UNCHANGED <<last, batch, formats, readonly>>

\* Line 112: os.remove(file_path) after the handler, and extract returns True
\* to line 216, the walk of destination; a file that is gone makes os.remove
\* raise into the except branch.
JobRemove(j) ==
    /\ At(j, "remove")
    /\ IF Top(j).file_path \in DOMAIN fs
       THEN /\ fs' = Remove(fs, Top(j).file_path)
            /\ jobs' = [jobs EXCEPT ![j].stack =
                          <<[Top(j) EXCEPT !.pc = "walk_next",
                                           !.todo = <<Top(j).destination>>]>> \o Tail(@)]
            /\ hist' = [hist EXCEPT
                          !.owner   = Remove(@, Top(j).file_path),
                          !.meddled = @ \cup Meddle(j, {Top(j).file_path}, "delete"),
                          !.decodes = Remove(@, Top(j).file_path)]
       ELSE /\ jobs' = Goto(j, "except_exists")
            /\ UNCHANGED <<fs, hist>>
    /\ UNCHANGED <<dirs, last, batch, formats, readonly>>

\* Line 116: os.path.exists(file_path) in the except branch.
JobExceptExists(j) ==
    /\ At(j, "except_exists")
    /\ jobs' = IF Top(j).file_path \in DOMAIN fs THEN Goto(j, "except_remove")
               ELSE Return(j, FALSE)
    /\ UNCHANGED <<fs, dirs, last, batch, hist, formats, readonly>>

\* Line 117: os.remove(file_path) in the except branch; a file that is gone by
\* now makes it raise out of the handler, and nothing above catches it.
JobExceptRemove(j) ==
    /\ At(j, "except_remove")
    /\ IF Top(j).file_path \in DOMAIN fs
       THEN /\ fs' = Remove(fs, Top(j).file_path)
            /\ jobs' = Return(j, FALSE)
            /\ hist' = [hist EXCEPT
                          !.owner   = Remove(@, Top(j).file_path),
                          !.meddled = @ \cup Meddle(j, {Top(j).file_path}, "delete"),
                          !.decodes = Remove(@, Top(j).file_path)]
       ELSE /\ jobs' = Raise(j)
            /\ UNCHANGED <<fs, hist>>
    /\ UNCHANGED <<dirs, last, batch, formats, readonly>>

\* The orders in which a set can be listed.
RECURSIVE Orders(_)
Orders(set) ==
    IF set = {} THEN {<<>>}
    ELSE UNION {{<<x>> \o rest : rest \in Orders(set \ {x})} : x \in set}

\* Line 216: os.walk(destination) lists its next directory, skipping one that
\* is not there, or is exhausted and the call returns True.
JobWalkNext(j) ==
    /\ At(j, "walk_next")
    /\ LET f    == Top(j)
           todo == f.todo
       IN  IF todo = <<>> THEN jobs' = Return(j, TRUE)
           ELSE IF Head(todo) \notin dirs
           THEN jobs' = [jobs EXCEPT ![j].stack = <<[f EXCEPT !.todo = Tail(todo)]>> \o Tail(@)]
           ELSE \E subs \in Orders(SubDirs(dirs, Head(todo))) :
                  jobs' = [jobs EXCEPT ![j].stack =
                             <<[f EXCEPT !.pc = "walk_file", !.root = Head(todo),
                                         !.files = FileNames(fs, Head(todo)),
                                         !.todo = subs \o Tail(todo)]>> \o Tail(@)]
    /\ UNCHANGED <<fs, dirs, last, batch, hist, formats, readonly>>

\* Mutant: a walk loop that never gets past the file it looks at.
JobWalkFile_keeps_file(j) ==
    /\ At(j, "walk_file")
    /\ LET f == Top(j)
       IN  IF f.files = {} THEN jobs' = Goto(j, "walk_next")
           ELSE \E file \in f.files :
                  LET source == FilePath(f.root, file)
                  IN  jobs' = [jobs EXCEPT ![j].stack =
                                 IF is_archive(fs, source)
                                 THEN <<Frame(source, f.root), f>> \o Tail(@)
                                 ELSE <<f>> \o Tail(@)]
    /\ UNCHANGED <<fs, dirs, last, batch, hist, formats, readonly>>

\* Lines 217-220: the next listed file; an archive is handed to a recursive
\* call with its directory as destination.
JobWalkFile(j) ==
    /\ At(j, "walk_file")
    /\ LET f == Top(j)
       IN  IF f.files = {} THEN jobs' = Goto(j, "walk_next")
           ELSE \E file \in f.files :
                  LET source == FilePath(f.root, file)
                      rest   == [f EXCEPT !.files = @ \ {file}]
                  IN  jobs' = [jobs EXCEPT ![j].stack =
                                 IF is_archive(fs, source)
                                 THEN <<Frame(source, f.root), rest>> \o Tail(@)
                                 ELSE <<rest>> \o Tail(@)]
    /\ UNCHANGED <<fs, dirs, last, batch, hist, formats, readonly>>

\* Lines 227-231: list(executor.map(...)) takes the results in the order of
\* file_paths; the result of a job that raised raises again, out of
\* batch_extract, once the with block has waited for the running jobs.
Collect ==
    /\ batch.phase = "running"
    /\ LET n == Len(batch.results) + 1
       IN  /\ jobs[n].status # "running"
           /\ IF jobs[n].status = "returned"
              THEN batch' = [phase   |-> IF n = Len(jobs) THEN "returned" ELSE "running",
                             results |-> Append(batch.results, jobs[n].result)]
              ELSE /\ \A i \in 1..Len(jobs) : jobs[i].status # "running"
                   /\ batch' = [batch EXCEPT !.phase = "raised"]
    /\ UNCHANGED <<fs, dirs, last, jobs, hist, formats, readonly>>

NextBatch ==
    \/ \E j \in 1..Len(jobs) : JobExists(j)
    \/ \E j \in 1..Len(jobs) : JobProbe(j)
    \/ \E j \in 1..Len(jobs) : JobIsEmpty(j)
    \/ \E j \in 1..Len(jobs) : JobHandler(j)
    \/ \E j \in 1..Len(jobs) : JobRemove(j)
    \/ \E j \in 1..Len(jobs) : JobExceptExists(j)
    \/ \E j \in 1..Len(jobs) : JobExceptRemove(j)
    \/ \E j \in 1..Len(jobs) : JobWalkNext(j)
    \/ \E j \in 1..Len(jobs) : JobWalkFile(j)
    \/ Collect

SpecBatch == InitBatch /\ [][NextBatch]_vars

(* ------------------ one call of extract_files_recursive ----------------- *)

\* A single thread calls extract_files_recursive on an input of any kind (an
\* archive of bounded nesting, a zero-length file, a plain file) with a
\* destination that may already hold a file.
InitRecursive ==
    /\ \E c \in Inputs, old \in SUBSET {FilePath(OutDir, NoteTxt)} :
         LET files == {BatchPath(1)} \cup old
         IN  /\ fs = [p \in files |-> IF p \in old THEN Memo ELSE c]
             /\ hist = [owner      |-> [p \in files |-> 0],
                        meddled    |-> {},
                        decodes    |-> [p \in files |-> 0],
                        registered |-> <<>>]
    /\ jobs = <<Job(BatchPath(1), OutDir)>>
    /\ dirs = {InDir, OutDir}
    /\ formats = SUPPORTED_FORMATS
    /\ readonly = {}
    /\ last = NoCall
    /\ batch = [phase |-> "running", results |-> <<>>]

\* The thread that runs the call is scheduled as long as it has a step to take.
SpecRecursive == InitRecursive /\ [][NextBatch]_vars /\ WF_vars(NextBatch)

(* ------------------------- move_file on threads ------------------------ *)

\* Most threads that call move_file at the same time.
MaxMovers == 2

\* The source of the call on thread i.
MoverSource(i) == FilePath(InDir, IF i = 1 THEN ATxt ELSE
                                  IF i = 2 THEN BTxt ELSE
                                  [BTxt EXCEPT !.sfx = <<i>>])

\* A call of move_file on a thread: its arguments, the local variables
\* destination and counter of the conflict loop, and where it stands.
Mover(source, destination) ==
    [source |-> source, base |-> destination, destination |-> destination,
     counter |-> 1, pc |-> "is_empty", result |-> FALSE]

\* Each thread moves a file of its own; the destinations may be the same, and
\* the destination may already hold a file.
InitMoveRace ==
    /\ \E k \in 1..MaxMovers :
         \E c \in [1..k -> {Note, Memo, EmptyFile}], d \in [1..k -> MoveTargets],
            old \in SUBSET {FilePath(OutDir, ATxt)} :
           /\ fs = [p \in {MoverSource(i) : i \in 1..k} \cup old |->
                       IF p \in old THEN Memo
                       ELSE c[CHOOSE i \in 1..k : MoverSource(i) = p]]
           /\ jobs = [i \in 1..k |-> Mover(MoverSource(i), d[i])]
           /\ hist = [owner      |-> [p \in {MoverSource(i) : i \in 1..k} \cup old |-> 0],
                      meddled    |-> {},
                      decodes    |-> <<>>,
                      registered |-> <<>>]
    /\ dirs = {InDir, OutDir}
    /\ formats = SUPPORTED_FORMATS
    /\ readonly = {}
    /\ last = NoCall
    /\ batch = [phase |-> "none", results |-> <<>>]

\* Lines 158-159: an empty source ends the call with False.
MoverIsEmpty(j) ==
    /\ jobs[j].pc = "is_empty"
    /\ jobs' = IF is_empty(fs, jobs[j].source)
               THEN [jobs EXCEPT ![j].pc = "done", ![j].result = FALSE]
               ELSE [jobs EXCEPT ![j].pc = "makedirs"]
    /\ UNCHANGED <<fs, dirs, last, batch, hist, formats, readonly>>

\* Line 162: os.makedirs(os.path.dirname(destination), exist_ok=True).
MoverMakedirs(j) ==
    /\ jobs[j].pc = "makedirs"
    /\ dirs' = dirs \cup Prefixes(jobs[j].destination.dir)
    /\ jobs' = [jobs EXCEPT ![j].pc = "exists"]
    /\ UNCHANGED <<fs, last, batch, hist, formats, readonly>>

\* Lines 167-169: one test of the conflict loop; a taken name makes the loop
\* try the next suffix, a free one ends it.
MoverExists(j) ==
    /\ jobs[j].pc = "exists"
    /\ jobs' = IF jobs[j].destination \in DOMAIN fs
               THEN [jobs EXCEPT ![j].destination = Suffixed(jobs[j].base, jobs[j].counter),
                                 ![j].counter = @ + 1]
               ELSE [jobs EXCEPT ![j].pc = "move"]
    /\ UNCHANGED <<fs, dirs, last, batch, hist, formats, readonly>>

\* Line 171: shutil.move(source, destination) renames the source onto the
\* destination, replacing a file that has appeared there since the test;
\* a missing source raises, which line 173 turns into False.
MoverMove(j) ==
    /\ jobs[j].pc = "move"
    /\ LET source      == jobs[j].source
           destination == jobs[j].destination
       IN  IF source \notin DOMAIN fs
           THEN /\ jobs' = [jobs EXCEPT ![j].pc = "done", ![j].result = FALSE]
                /\ UNCHANGED <<fs, hist>>
           ELSE /\ fs' = Write(Remove(fs, source), destination, fs[source])
                /\ jobs' = [jobs EXCEPT ![j].pc = "done", ![j].result = TRUE]
                /\ hist' = [hist EXCEPT
                              !.owner   = Write(Remove(@, source), destination, j),
                              !.meddled = @ \cup
                                  {[by |-> j, of |-> hist.owner[p], how |-> "overwrite"] :
                                      p \in {destination} \cap DOMAIN fs}]
    /\ UNCHANGED <<dirs, last, batch, formats, readonly>>

NextMoveRace ==
    \/ \E j \in 1..Len(jobs) : MoverIsEmpty(j)
    \/ \E j \in 1..Len(jobs) : MoverMakedirs(j)
    \/ \E j \in 1..Len(jobs) : MoverExists(j)
    \/ \E j \in 1..Len(jobs) : MoverMove(j)

SpecMoveRace == InitMoveRace /\ [][NextMoveRace]_vars

(* ------------------- a destination that holds an archive ---------------- *)

\* The archive the destination holds before the first call: one plain entry,
\* memo.txt, readable or corrupt.
Album(corrupt) == Archive({Entry(<<>>, FileName("memo", ".txt"), Memo)}, corrupt)

\* The caller's archive lies in the input directory; the destination already
\* holds album.zip, directly or in a sub-directory of its own.
InitRescan ==
    /\ NoBatch
    /\ \E c \in Inputs, r \in {<<>>, SubRel}, corrupt \in BOOLEAN :
          /\ fs = [p \in {FilePath(InDir, PhotosZip), FilePath(OutDir \o r, AlbumZip)} |->
                     IF p.dir = InDir THEN c ELSE Album(corrupt)]
          /\ dirs = {InDir} \cup Prefixes(OutDir \o r)
    /\ formats = SUPPORTED_FORMATS
    /\ readonly = {}
    /\ last = NoCall

SpecRescan == InitRescan /\ [][Next]_vars

(* -------------------------------- claims -------------------------------- *)

\* The contents the handlers were called on during the last call.
Decoded == {last.calls[i].content : i \in 1..Len(last.calls)}

\* The last call was extract_files_recursive on an archive none of whose levels
\* is corrupt.
RanOnNest ==
    /\ last.op = "extract_files_recursive"
    /\ last.path \in DOMAIN last.pre_fs
    /\ last.pre_fs[last.path].arch
    /\ WellFormed(last.pre_fs[last.path])

\* C1: once extract_files_recursive has returned for an archive with N levels of
\* nesting, every level has been decoded, the top-level archive is gone and no
\* archive file is left in the destination tree.
C1_AllLevelsDecoded ==
    RanOnNest =>
      /\ Nested(last.pre_fs[last.path]) \subseteq Decoded
      /\ last.path \notin DOMAIN fs
      /\ \A p \in Tree(fs, last.dest) : ~is_archive(fs, p)

\* The last call left the filesystem as it found it.
NoEffect == fs = last.pre_fs /\ dirs = last.pre_dirs

\* C4: move_file of a non-empty source overwrites nothing: every other file
\* keeps its path and content, the source's content ends under the destination
\* if that name was free, and otherwise under base_k.ext for the smallest
\* k >= 1 whose name was free.
C4_MoveNeverOverwrites ==
    (/\ last.op = "move_file"
     /\ last.path \in DOMAIN last.pre_fs
     /\ ~last.pre_fs[last.path].empty)
    => /\ last.ok
       /\ \A p \in DOMAIN last.pre_fs \ {last.path} :
             p \in DOMAIN fs /\ fs[p] = last.pre_fs[p]
       /\ \E target \in DOMAIN fs \ (DOMAIN last.pre_fs \ {last.path}) :
             /\ fs[target] = last.pre_fs[last.path]
             /\ DOMAIN fs = (DOMAIN last.pre_fs \ {last.path}) \cup {target}
             /\ IF last.dest \notin DOMAIN last.pre_fs THEN target = last.dest
                ELSE \E k \in 1..Cardinality(DOMAIN last.pre_fs) :
                       /\ target = Suffixed(last.dest, k)
                       /\ \A j \in 1..(k - 1) :
                             Suffixed(last.dest, j) \in DOMAIN last.pre_fs

\* A third move onto a.txt has stored its file as a_2.txt.
C4_Witness ==
    /\ last.op = "move_file"
    /\ last.ok
    /\ last.dest = FilePath(OutDir, ATxt)
    /\ {last.dest, Suffixed(last.dest, 1)} \subseteq DOMAIN last.pre_fs
    /\ Suffixed(last.dest, 2) \in DOMAIN fs \ DOMAIN last.pre_fs

\* C5: after extract has returned for a non-empty archive file, the file is
\* gone whether the decode succeeded or failed, and the result is True exactly
\* when the handler did not raise.
C5_ArchiveAlwaysDeleted ==
    (/\ last.op = "extract"
     /\ last.path \in DOMAIN last.pre_fs
     /\ ~last.pre_fs[last.path].empty
     /\ is_archive(last.pre_fs, last.path))
    => /\ last.path \notin DOMAIN fs
       /\ Len(last.calls) = 1
       /\ last.ok <=> ~last.calls[1].raised

\* extract has failed on a corrupt archive and deleted it.
C5_Witness ==
    /\ last.op = "extract"
    /\ last.path \in DOMAIN last.pre_fs
    /\ last.pre_fs[last.path].arch
    /\ last.pre_fs[last.path].corrupt
    /\ ~last.ok
    /\ last.path \notin DOMAIN fs

\* C6: extract_files_recursive run again after a run that returned True, with
\* the same arguments or (the first run having started from a filesystem with
\* no corrupt archive) on any file of the tree it produced, calls no handler and
\* leaves the filesystem as it is.
C6_SecondRunIsNoOp ==
    (last.op = "extract_files_recursive" /\ (last.repeat \/ last.follow))
    => last.calls = <<>> /\ NoEffect

\* A second run on a tree that a first run has extracted a nested archive into.
C6_Witness ==
    /\ last.op = "extract_files_recursive"
    /\ last.follow
    /\ last.path = FilePath(OutDir \o SubRel, NoteTxt)
    /\ fs[last.path] = Note
    /\ last.calls = <<>>

\* C7: delete_if_empty removes a zero-length file and returns True, and
\* returns True again for the path that is now missing.
C7_DeleteIfEmptyTwice ==
    last.op = "delete_if_empty" =>
      /\ (last.path \in DOMAIN last.pre_fs /\ last.pre_fs[last.path].empty)
            => /\ last.ok
               /\ fs = Remove(last.pre_fs, last.path)
      /\ last.path \notin DOMAIN last.pre_fs => last.ok /\ NoEffect

\* delete_if_empty has been called again on the path it has just deleted.
C7_Witness ==
    /\ last.op = "delete_if_empty"
    /\ last.repeat
    /\ last.path # MissingPath
    /\ last.path \notin DOMAIN last.pre_fs
    /\ last.ok

\* C8: the value extract_files_recursive returns is the success of the
\* outermost handler call alone, whatever the nested calls did.
C8_ResultIsOutermostDecode ==
    last.op = "extract_files_recursive" =>
      IF last.calls = <<>> THEN ~last.ok
      ELSE /\ last.calls[1].path = last.path
           /\ last.ok <=> ~last.calls[1].raised

\* extract_files_recursive has returned True although a nested call failed.
C8_Witness ==
    /\ last.op = "extract_files_recursive"
    /\ last.ok
    /\ \E i \in 2..Len(last.calls) : last.calls[i].raised

\* C9: extract_files_recursive on an existing file that is no archive calls no
\* handler and changes nothing.
C9_NonArchiveUntouched ==
    (/\ last.op = "extract_files_recursive"
     /\ last.path \in DOMAIN last.pre_fs
     /\ ~last.pre_fs[last.path].arch
     /\ Lower(last.path.name.ext) \notin ArchiveExts)
    => ~last.ok /\ last.calls = <<>> /\ NoEffect

\* extract_files_recursive has been given the plain note.txt of the destination.
C9_Witness ==
    /\ last.op = "extract_files_recursive"
    /\ last.path = FilePath(OutDir, NoteTxt)
    /\ last.path \in DOMAIN last.pre_fs
    /\ ~last.pre_fs[last.path].arch
    /\ last.path \in DOMAIN fs

\* Every job of the batch has ended and batch_extract has ended.
BatchOver ==
    /\ batch.phase \in {"returned", "raised"}
    /\ \A j \in 1..Len(jobs) : jobs[j].status # "running"

\* C2: batch_extract on K paths returns K booleans, the i-th the outcome of the
\* job for the i-th path, whatever the order the jobs ran in and whichever
\* failed.
C2_ResultsAligned ==
    BatchOver =>
      /\ batch.phase = "returned"
      /\ Len(batch.results) = Len(jobs)
      /\ \A i \in 1..Len(jobs) : batch.results[i] = jobs[i].result

\* C3: a failure inside a job ends that job with False in its slot: no job ends
\* by an exception and none propagates out of batch_extract.
C3_FailureIsolated ==
    /\ batch.phase # "raised"
    /\ \A j \in 1..Len(jobs) : jobs[j].status # "raised"

\* C10: no job of a batch decodes, deletes or overwrites a file that another
\* job of the batch produced.
C10_NoJobTouchesAnothersOutput == hist.meddled = {}

\* The files job j has extracted that lie outside the sub-directory of the
\* destination named after the job's archive.
OutsidePrivateDir(j) ==
    {p \in DOMAIN hist.owner :
        /\ hist.owner[p] = j
        /\ ~IsUnder(p.dir, OutDir \o <<BatchPath(j).name.base>>)}

\* C11: every job of a batch extracts into a sub-directory of the destination
\* of its own, named after its archive, never into the destination itself, so
\* no two jobs write into the same directory.
C11_JobPrivateDestination ==
    \A j \in 1..Len(jobs) : OutsidePrivateDir(j) = {}

\* The last call was move_files on a directory that existed.
Organized == last.op = "move_files" /\ last.path \in last.pre_dirs

\* The file that was at p lies directly under the root of the last call, under
\* p's stem and lower-cased extension, with one more numeric suffix at most.
LiesUnderRoot(p, q) ==
    /\ q \in DOMAIN fs
    /\ q.dir = last.path
    /\ fs[q] = last.pre_fs[p]
    /\ q.name.base = p.name.base
    /\ q.name.ext = Lower(p.name.ext)
    /\ \/ q.name.sfx = p.name.sfx
       \/ \E k \in 1..(Cardinality(DOMAIN last.pre_fs) + 1) :
             q.name.sfx = Append(p.name.sfx, k)

\* The normalized name of the file that was at p is taken by another file: one
\* that held it when move_files was called, or one that holds it now.
NameTaken(p) ==
    LET wanted == Normalized(last.path, p.name)
    IN  wanted \in (DOMAIN last.pre_fs \ {p}) \cup DOMAIN fs

\* C12: after move_files(root) every non-empty file of the tree lies directly
\* under root under its normalized name, with a conflict suffix only where
\* another file has taken that name, and no zero-length file is left in the
\* tree.
C12_AllFilesUnderRoot ==
    Organized =>
      /\ \A q \in Tree(fs, last.path) : ~fs[q].empty
      /\ \A p \in Tree(last.pre_fs, last.path) :
           ~last.pre_fs[p].empty =>
             \E q \in DOMAIN fs :
               /\ LiesUnderRoot(p, q)
               /\ q # Normalized(last.path, p.name) => NameTaken(p)

\* C13: after move_files(root) no directory below root is left empty, a
\* directory that held only sub-directories included.
C13_NoEmptyDirectoryLeft ==
    Organized =>
      \A d \in dirs :
        (IsUnder(d, last.path) /\ d # last.path) => ~ListsEmpty(State(fs, dirs, <<>>), d)

\* The last call was extract or extract_files_recursive on a zero-length file.
RanOnEmpty ==
    /\ last.op \in {"extract", "extract_files_recursive"}
    /\ last.path \in DOMAIN last.pre_fs
    /\ last.pre_fs[last.path].empty

\* No handler was called on a zero-length file during the last call.
NoEmptyDecoded ==
    \A i \in 1..Len(last.calls) : last.calls[i].present => ~last.calls[i].content.empty

\* C14: a zero-length file is never passed to a handler; extract and
\* extract_files_recursive delete it and report success.
C14_EmptyEntryDeleted ==
    /\ NoEmptyDecoded
    /\ RanOnEmpty => /\ last.calls = <<>>
                     /\ last.path \notin DOMAIN fs
                     /\ last.ok

\* The last call was extract_files_recursive on a path that was missing or a
\* zero-length file.
RanOnMissingOrEmpty ==
    /\ last.op = "extract_files_recursive"
    /\ last.path \in DOMAIN last.pre_fs => last.pre_fs[last.path].empty

\* What extract_files_recursive returns when the decode of its input failed.
FailedOutcome == FALSE

\* The last call invoked no handler and left the filesystem as it was.
SoftNoOp == last.calls = <<>> /\ NoEffect

\* C15: extract_files_recursive on a missing or zero-length input invokes no
\* handler, creates no file, and returns an outcome other than that of a failed
\* decode.
C15_MissingOrEmptyIsDone ==
    RanOnMissingOrEmpty => SoftNoOp /\ last.ok # FailedOutcome

\* C16: move_file of a zero-length source returns False and changes nothing:
\* the source stays, no file and no directory is created.
C16_EmptySourceNotMoved ==
    (/\ last.op = "move_file"
     /\ last.path \in DOMAIN last.pre_fs
     /\ last.pre_fs[last.path].empty)
    => ~last.ok /\ NoEffect

\* move_file has been given a zero-length source and a destination in a
\* directory that does not exist.
C16_Witness ==
    /\ last.op = "move_file"
    /\ last.path \in DOMAIN last.pre_fs
    /\ last.pre_fs[last.path].empty
    /\ last.dest.dir \notin last.pre_dirs
    /\ ~last.ok

\* C19: during a batch no file is passed to a handler more than once: the
\* archive is gone before any walk, of the same job or of another, comes to it.
C19_NoFileDecodedTwice ==
    \A p \in DOMAIN hist.decodes : hist.decodes[p] <= 1

\* The last call was extract and it called a handler.
Dispatched == last.op = "extract" /\ last.calls # <<>>

\* C17: after any add_format calls the table has at most one entry per
\* lower-cased extension, that entry is the handler registered last for it, and
\* extract on a file with that extension in any letter case calls that handler.
C17_LastRegistrationWins ==
    /\ \A k1, k2 \in DOMAIN formats : Lower(k1) = Lower(k2) => k1 = k2
    /\ \A e \in DOMAIN hist.registered :
          e \in DOMAIN formats /\ formats[e] = hist.registered[e]
    /\ (Dispatched /\ Lower(last.path.name.ext) \in DOMAIN hist.registered)
          => last.calls[1].handler = hist.registered[Lower(last.path.name.ext)]

\* C18: for a non-empty file whose lower-cased extension is no key of the
\* table, extract calls the fallback decode, once, and fails exactly when that
\* call raises.
C18_FallbackWhenUnregistered ==
    (/\ last.op = "extract"
     /\ last.path \in DOMAIN last.pre_fs
     /\ ~last.pre_fs[last.path].empty
     /\ Lower(last.path.name.ext) \notin DOMAIN formats)
    => /\ Len(last.calls) = 1
       /\ last.calls[1].handler = "fallback"
       /\ last.ok <=> ~last.calls[1].raised

\* extract has decoded an archive with an extension the table does not know,
\* after handlers were registered for other extensions.
C18_Witness ==
    /\ last.op = "extract"
    /\ last.path = FilePath(InDir, FileName("data", ".pak"))
    /\ ".pak" \notin DOMAIN formats
    /\ hist.registered # <<>>
    /\ last.ok
    /\ last.calls[1].handler = "fallback"
    /\ FilePath(last.dest, NoteTxt) \in DOMAIN fs

\* C20: when move_file calls run at the same time, no call replaces a file
\* that was there or that another call placed, and the file of every call that
\* returned True is in the filesystem under a name of its own.
C20_ConcurrentMovesKeepAll ==
    /\ \A e \in hist.meddled : e.how # "overwrite"
    /\ \A j \in 1..Len(jobs) :
          (jobs[j].pc = "done" /\ jobs[j].result) =>
             \E p \in DOMAIN fs : hist.owner[p] = j

\* C21: a call of extract_files_recursive on an input of finite nesting depth
\* terminates: the thread that runs it ends, by a return or by an exception.
C21_Terminates == <>(\A j \in 1..Len(jobs) : jobs[j].status # "running")

\* The call has returned True after the recursion decoded an archive nested in
\* a sub-directory.
C21_Witness ==
    /\ Len(jobs) = 1
    /\ jobs[1].status = "returned"
    /\ jobs[1].result
    /\ FilePath(OutDir \o SubRel, NoteTxt) \in DOMAIN fs
    /\ \A p \in DOMAIN fs : ~fs[p].arch

\* C22: FileValidator.is_archive never raises: when the library's probe fails
\* it returns False, and it changes nothing in the filesystem.
C22_ProbeNeverRaises ==
    last.op = "is_archive" =>
      /\ ~last.calls[1].raised
      /\ last.calls[1].failed => ~last.ok
      /\ NoEffect

\* The last call of move_files logged event for path.
LoggedFor(event, path) ==
    \E i \in DOMAIN last.calls :
       last.calls[i].event = event /\ last.calls[i].path = path

\* C23: a call of move_files on a tree with directories that may not be
\* written returns without raising; every failed delete, move and rmdir is
\* logged; and the walk still processes everything else: no zero-length file is
\* left in a directory that may be written, every non-empty file of a writable
\* sub-directory has left it for the root when the root may be written, and no
\* directory without sub-directories is left empty inside a writable one.
C23_WalkSurvivesFailures ==
    Organized =>
      /\ last.ok
      /\ \A q \in Tree(fs, last.path) : fs[q].empty => q.dir \in readonly
      /\ \A p \in Tree(last.pre_fs, last.path) :
           /\ (last.pre_fs[p].empty /\ p.dir \in readonly) => LoggedFor("warning", p)
           /\ ~last.pre_fs[p].empty =>
                IF p.dir \in readonly \/ last.path \in readonly
                THEN LoggedFor("error", p)
                ELSE /\ p.dir # last.path => p \notin DOMAIN fs
                     /\ \E q \in DOMAIN fs : LiesUnderRoot(p, q)
      /\ \A d \in dirs :
           (/\ IsUnder(d, last.path) /\ d # last.path
            /\ SubDirs(last.pre_dirs, d) = {}
            /\ ListsEmpty(State(fs, dirs, <<>>), d))
             => Parent(d) \in readonly /\ LoggedFor("error", DirPath(d))

\* C23 witness: the move of out/sub/a.txt failed because out/sub may not be
\* written, and the walk went on to out/sub/deep, moved its file to the root
\* and failed to remove the emptied directory.
C23_Witness ==
    /\ last.op = "move_files" /\ last.path = OutDir /\ last.ok
    /\ readonly = {OutDir \o SubRel}
    /\ FilePath(OutDir \o SubRel, ATxt) \in DOMAIN fs
    /\ ~fs[FilePath(OutDir \o SubRel, ATxt)].empty
    /\ LoggedFor("error", FilePath(OutDir \o SubRel, ATxt))
    /\ FilePath(OutDir \o SubRel \o DeepRel, BTxt) \in DOMAIN last.pre_fs
    /\ FilePath(OutDir \o SubRel \o DeepRel, BTxt) \notin DOMAIN fs
    /\ FilePath(OutDir, BTxt) \in DOMAIN fs
    /\ OutDir \o SubRel \o DeepRel \in dirs
    /\ LoggedFor("error", DirPath(OutDir \o SubRel \o DeepRel))

\* The destination of the i-th handler call of the last call: the caller's for
\* the first, the directory of the decoded archive for those of the rescan.
CallDest(i) == IF i = 1 THEN last.dest ELSE last.calls[i].path.dir

\* The paths the handler calls of the last call wrote.
WrittenBy ==
    UNION {{FilePath(CallDest(i) \o e.rel, e.name) : e \in last.calls[i].content.entries}
             : i \in DOMAIN last.calls}

\* C24: after a successful extract_files_recursive(file_path, destination)
\* every file that lay under destination before the call, other than file_path
\* itself, and that no handler call of it wrote, is still there with its
\* content.
C24_OldFilesUntouched ==
    (last.op = "extract_files_recursive" /\ last.ok) =>
      \A p \in DOMAIN last.pre_fs :
         (IsUnder(p.dir, last.dest) /\ p # last.path /\ p \notin WrittenBy)
            => (p \in DOMAIN fs /\ fs[p] = last.pre_fs[p])

\* C25: a non-empty file that lies directly under the root of move_files under
\* its normalized name before the call is at the same path with the same
\* content after it.
C25_OrganizedFileKeepsPath ==
    Organized =>
      \A p \in DOMAIN last.pre_fs :
         (/\ p.dir = last.path
          /\ ~last.pre_fs[p].empty
          /\ p = Normalized(last.path, p.name))
            => (p \in DOMAIN fs /\ fs[p] = last.pre_fs[p])

\* The files of the tree under top that hold content c.
Holding(f, top, c) == {p \in Tree(f, top) : f[p] = c}

\* C26: move_files(root) on a tree whose directories may all be written
\* leaves, for every non-empty content, as many files holding it under root
\* as there were before the call.
C26_NoFileLost ==
    Organized =>
      \A c \in {Note, Memo} :
         Cardinality(Holding(fs, last.path, c))
            = Cardinality(Holding(last.pre_fs, last.path, c))

\* C26 witness: two non-empty files named a.txt in different sub-directories
\* have both been moved to the root, one under a conflict suffix.
C26_Witness ==
    /\ last.op = "move_files" /\ last.path = OutDir
    /\ FilePath(OutDir \o SubRel, ATxt) \in DOMAIN last.pre_fs
    /\ ~last.pre_fs[FilePath(OutDir \o SubRel, ATxt)].empty
    /\ FilePath(OutDir \o SubRel \o DeepRel, ATxt) \in DOMAIN last.pre_fs
    /\ ~last.pre_fs[FilePath(OutDir \o SubRel \o DeepRel, ATxt)].empty
    /\ DOMAIN fs = {FilePath(OutDir, ATxt), Suffixed(FilePath(OutDir, ATxt), 1)}

====
